---- MODULE Spec2Model ----
(***************************************************************************)
(* Model of the balancer package: Balancer.New / Dial / Close,             *)
(* randomDialer and its helpers, and the per-dialer monitor goroutine of   *)
(* dialer.start with dialer.onError / dialer.stop.                         *)
(*                                                                         *)
(* Durations are counted in units of 100ms.  A dialer is identified by its *)
(* index in b.dialers (New wraps every *Dialer in a fresh *dialer, so the  *)
(* pointers are pairwise distinct).                                        *)
(***************************************************************************)
EXTENDS Integers, Sequences, FiniteSets, TLC

VARIABLES
  b_dialers,            \* Balancer.dialers: the Weight/QOS of each wrapped Dialer
  active,               \* dialer.active (int32, 0 or 1)
  errCh,                \* dialer.errCh: [n: buffered errors, closed: BOOLEAN]
  consecCheckFailures,  \* local of the monitor goroutine
  timer,                \* the monitor's time.Timer: [armed, long, dur]
  timerC,               \* whether a value is buffered in timer.C
  mpc,                  \* position of the monitor goroutine
  closeI,               \* Balancer.Close: number of dialers already stopped
  pc,                   \* position of each Dial call
  targetQOS,            \* Dial's targetQOS argument
  dialers,              \* Dial's local slice `dialers`
  fi,                   \* randomDialer: index of the filter loop
  filtered,             \* randomDialer: local slice `filtered`
  chosen,               \* Dial's local d (0 is nil)
  attempts,             \* this call's d.Dial calls in order: [d, how], how being
                        \* "ok" or what onError did with the error
  result,               \* what Dial returned
  stayedActive          \* dialers whose active flag was 1 ever since the call started

vars == <<b_dialers, active, errCh, consecCheckFailures, timer, timerC, mpc,
          closeI, pc, targetQOS, dialers, fi, filtered, chosen, attempts,
          result, stayedActive>>

monitorVars == <<active, errCh, consecCheckFailures, timer, timerC, mpc>>
dialVars == <<pc, targetQOS, dialers, fi, filtered, chosen, attempts,
              result, stayedActive>>

----
\* Bounds of the model.
NumCalls == 2          \* concurrent Dial calls
MaxConsec == 1         \* cap of consecCheckFailures under Spec and SpecLive
MaxConsecMon == 26     \* cap of consecCheckFailures under SpecMon
MaxSelDialers == 3     \* largest registry under SpecSel
MaxSelWeight == 2      \* largest Weight under SpecSel
MaxAnyDialers == 3     \* largest registry under SpecAnyWeight
MaxNegWeight == 1      \* the Weights of SpecAnyWeight start at -MaxNegWeight

Calls == 1..NumCalls
QOSValues == {1, 5}
TargetValues == {1, 5, 10}

\* The registry of Spec and SpecLive: A{weight 1, qos 1}, B{weight 3, qos 5}.
\* With these two, a targetQOS of 10 selects exactly as one of 5 does, so the
\* calls of Spec draw targetQOS from ScenarioTargets.
ScenarioDialers == << [Weight |-> 1, QOS |-> 1], [Weight |-> 3, QOS |-> 5] >>

ScenarioTargets == {1, 5}

D == 1..Len(b_dialers)

----
\* Helpers on sequences.
Range(s) == {s[k] : k \in DOMAIN s}

Min(a, b) == IF a < b THEN a ELSE b

Last(s) == s[Len(s)]

----
\* time.Duration values used by the monitor, in units of 100ms.
longTimer == [armed |-> TRUE, long |-> TRUE, dur |-> 0]

firedTimer == [armed |-> FALSE, long |-> FALSE, dur |-> 0]

resetTimer(timeout) == [armed |-> TRUE, long |-> FALSE, dur |-> timeout]

\* maxCheckTimeout = 1 * time.Minute: declared, and used nowhere.
maxCheckTimeout == 600

checkTimeout(n) == n * n

\* A loop head that never schedules a check.
loopHead_NoReset(act, consec, tm) == tm

\* The head of the monitor's for loop: with d.active == 0 the timer is reset
\* to consecCheckFailures^2 * 100ms, otherwise it is left as it is.
loopHead(act, consec, tm) == IF act = 0 THEN resetTimer(checkTimeout(consec)) ELSE tm

----
\* dialer.start: the state of a freshly started dialer.
start(n) ==
  /\ active = [d \in 1..n |-> 1]
  /\ errCh = [d \in 1..n |-> [n |-> 0, closed |-> FALSE]]
  /\ consecCheckFailures = [d \in 1..n |-> 0]
  /\ timer = [d \in 1..n |-> longTimer]
  /\ timerC = [d \in 1..n |-> FALSE]
  /\ mpc = [d \in 1..n |-> "select"]

idleCalls ==
  /\ pc = [c \in Calls |-> "idle"]
  /\ targetQOS = [c \in Calls |-> 0]
  /\ dialers = [c \in Calls |-> <<>>]
  /\ fi = [c \in Calls |-> 0]
  /\ filtered = [c \in Calls |-> <<>>]
  /\ chosen = [c \in Calls |-> 0]
  /\ attempts = [c \in Calls |-> <<>>]
  /\ result = [c \in Calls |-> "none"]
  /\ stayedActive = [c \in Calls |-> {}]

\* New(dialers...)
New(cfg) ==
  /\ b_dialers = cfg
  /\ start(Len(cfg))
  /\ closeI = 0
  /\ idleCalls

Init == New(ScenarioDialers)

----
\* The monitor goroutine of dialer.start.

\* The runtime timer expires: a value is put in timer.C (capacity 1).
\* longDuration (1000000 hours) never expires.  timer.Reset does not drain
\* timer.C, so a value put there stays until the select takes it.
TimerFire(d) ==
  /\ timer[d].armed /\ ~timer[d].long
  /\ timer' = [timer EXCEPT ![d] = firedTimer]
  /\ timerC' = [timerC EXCEPT ![d] = TRUE]
  /\ UNCHANGED <<b_dialers, active, errCh, consecCheckFailures, mpc, closeI>>
  /\ UNCHANGED dialVars

\* case _, ok := <-d.errCh with ok: deactivate, then the loop head.
storeOnError(d) == 0

MonitorRecvErr(d) ==
  /\ mpc[d] = "select"
  /\ errCh[d].n > 0
  /\ errCh' = [errCh EXCEPT ![d].n = @ - 1]
  /\ active' = [active EXCEPT ![d] = storeOnError(d)]
  /\ timer' = [timer EXCEPT ![d] = loopHead(active'[d], consecCheckFailures[d], @)]
  /\ stayedActive' = [c \in Calls |->
       IF active'[d] = 0 /\ pc[c] \in {"filter", "dial", "onError"}
       THEN stayedActive[c] \ {d} ELSE stayedActive[c]]
  /\ UNCHANGED <<b_dialers, consecCheckFailures, timerC, mpc, closeI>>
  /\ UNCHANGED <<pc, targetQOS, dialers, fi, filtered, chosen, attempts, result>>

\* A monitor that does not return when the channel is closed.
MonitorStopped_KeepsRunning(d) ==
  /\ mpc[d] = "select"
  /\ errCh[d].n = 0 /\ errCh[d].closed
  /\ UNCHANGED vars

\* case _, ok := <-d.errCh with !ok: the channel is closed and drained.
MonitorStopped(d) ==
  /\ mpc[d] = "select"
  /\ errCh[d].n = 0 /\ errCh[d].closed
  /\ mpc' = [mpc EXCEPT ![d] = "stopped"]
  /\ UNCHANGED <<b_dialers, active, errCh, consecCheckFailures, timer, timerC, closeI>>
  /\ UNCHANGED dialVars

\* case <-timer.C: the call of d.Check() begins.
MonitorTimer(d) ==
  /\ mpc[d] = "select"
  /\ timerC[d]
  /\ timerC' = [timerC EXCEPT ![d] = FALSE]
  /\ mpc' = [mpc EXCEPT ![d] = "check"]
  /\ UNCHANGED <<b_dialers, active, errCh, consecCheckFailures, timer, closeI>>
  /\ UNCHANGED dialVars

\* d.Check() returns ok; then the loop head.
consecAfterCheck(ok, consec) == IF ok THEN consec ELSE consec + 1

timerAfterCheck(ok, tm) == IF ok THEN longTimer ELSE tm

storeOnCheck(ok, act) == IF ok THEN 1 ELSE act

\* consecCheckFailures is unbounded in the code.  With merge = FALSE a failed
\* check is taken only below maxConsec; with merge = TRUE every count from
\* maxConsec on is represented by maxConsec.
MonitorCheckDone(d, ok, maxConsec, merge) ==
  /\ mpc[d] = "check"
  /\ ok \/ merge \/ consecCheckFailures[d] < maxConsec
  /\ active' = [active EXCEPT ![d] = storeOnCheck(ok, @)]
  /\ consecCheckFailures' =
       [consecCheckFailures EXCEPT ![d] = Min(consecAfterCheck(ok, @), maxConsec)]
  /\ timer' = [timer EXCEPT ![d] =
       loopHead(active'[d], consecCheckFailures'[d], timerAfterCheck(ok, @))]
  /\ mpc' = [mpc EXCEPT ![d] = "select"]
  /\ UNCHANGED <<b_dialers, errCh, timerC, closeI>>
  /\ UNCHANGED dialVars

----
\* Balancer.Close: d.stop() for the next dialer of b.dialers.
Close ==
  /\ closeI < Len(b_dialers)
  /\ closeI' = closeI + 1
  /\ errCh' = [errCh EXCEPT ![closeI + 1].closed = TRUE]
  /\ UNCHANGED <<b_dialers, active, consecCheckFailures, timer, timerC, mpc>>
  /\ UNCHANGED dialVars

----
\* Pure parts of randomDialer and its helpers.

QOS(d) == b_dialers[d].QOS

Weight(d) == b_dialers[d].Weight

\* byQOS.Less
Less(a, b) == QOS(a) < QOS(b)

\* sort.Sort(byQOS(dialers)).  On a slice of at most 6 elements sort.Sort is
\* an insertion sort: each element in turn moves down while it is Less than
\* the one before it.
RECURSIVE insertionStep(_, _)
insertionStep(s, x) ==
  IF Len(s) = 0 THEN <<x>>
  ELSE IF Less(x, Last(s))
  THEN Append(insertionStep(SubSeq(s, 1, Len(s) - 1), x), Last(s))
  ELSE Append(s, x)

RECURSIVE insertionSort(_, _)
insertionSort(ds, k) ==
  IF k = 0 THEN <<>> ELSE insertionStep(insertionSort(ds, k - 1), ds[k])

byQOS(ds) == insertionSort(ds, Len(ds))

\* A filter loop whose fallback forgets that it is only for the last dialer.
filterStep_EarlyFallback(ds, i, isact, tq, flt) ==
  IF ~isact THEN flt
  ELSE IF QOS(ds[i]) >= tq THEN Append(flt, ds[i])
  ELSE IF Len(flt) = 0 THEN Append(flt, ds[i])
  ELSE flt

\* A filter loop that does not weed out inactive dialers.
filterStep_KeepInactive(ds, i, isact, tq, flt) ==
  IF QOS(ds[i]) >= tq THEN Append(flt, ds[i])
  ELSE IF i = Len(ds) /\ Len(flt) = 0 THEN Append(flt, ds[i])
  ELSE flt

\* One iteration of the filter loop of randomDialer on dialers[i], whose
\* isactive() returned isact.
filterStep(ds, i, isact, tq, flt) ==
  IF ~isact THEN flt
  ELSE IF QOS(ds[i]) >= tq THEN Append(flt, ds[i])
  ELSE IF i = Len(ds) /\ Len(flt) = 0 THEN Append(flt, ds[i])
  ELSE flt

RECURSIVE sumWeights(_, _)
sumWeights(flt, k) == IF k = 0 THEN 0 ELSE sumWeights(flt, k - 1) + Weight(flt[k])

totalWeights(flt) == sumWeights(flt, Len(flt))

\* The walk over filtered: the index of the first dialer whose accumulated
\* weight exceeds t, 0 when the loop runs off the end (panic "No dialer found!").
RECURSIVE walk(_, _, _, _)
walk(flt, t, k, aw) ==
  IF k > Len(flt) THEN 0
  ELSE IF aw + Weight(flt[k]) > t THEN k
  ELSE walk(flt, t, k + 1, aw + Weight(flt[k]))

\* A walk that compares the accumulated weight with t + 1.
pickIndex_Shifted(flt, t) == walk(flt, t + 1, 1, 0)

\* A walk that stops when the accumulated weight reaches t (aw >= t).
pickIndex_AtLeast(flt, t) == walk(flt, t - 1, 1, 0)

pickIndex(flt, t) == walk(flt, t, 1, 0)

\* A without that takes nothing out.
without_DropsNothing(ds, i) == ds

\* A without that cuts off the last dialer whatever i is.
without_DropsLast(ds, i) == SubSeq(ds, 1, Len(ds) - 1)

\* without(dialers, i)
without(ds, i) ==
  IF Len(ds) = 1 THEN <<>>
  ELSE IF i = Len(ds) THEN SubSeq(ds, 1, i - 1)
  ELSE SubSeq(ds, 1, i - 1) \o SubSeq(ds, i + 1, Len(ds))

\* A withoutDialer that never finds d.
withoutDialer_NotFound(ds, d) == ds

\* withoutDialer(dialers, d)
withoutDialer(ds, d) ==
  IF \E k \in 1..Len(ds) : ds[k] = d
  THEN without(ds, CHOOSE k \in 1..Len(ds) :
                     ds[k] = d /\ \A l \in 1..(k - 1) : ds[l] # d)
  ELSE ds

\* dialer.isactive
isactive(d) == active[d] = 1

\* A getDialers that hands out the registry without its first dialer.
getDialers_DropsFirst == [k \in 1..(Len(b_dialers) - 1) |-> k + 1]

\* Balancer.getDialers: a copy of b.dialers.
getDialers == [k \in 1..Len(b_dialers) |-> k]

\* dialer.onError: the non-blocking send on errCh (capacity 1).
ErrChCap == 1

\* An onError that queues the signal although one is pending.
onError_AlwaysSends(ch) ==
  IF ch.closed THEN [how |-> "panic", ch |-> ch]
  ELSE [how |-> "sent", ch |-> [ch EXCEPT !.n = @ + 1]]

\* An onError whose send never goes through.
onError_NeverSends(ch) ==
  IF ch.closed THEN [how |-> "panic", ch |-> ch] ELSE [how |-> "dropped", ch |-> ch]

onError(ch) ==
  IF ch.closed THEN [how |-> "panic", ch |-> ch]
  ELSE IF ch.n < ErrChCap THEN [how |-> "sent", ch |-> [ch EXCEPT !.n = @ + 1]]
  ELSE [how |-> "dropped", ch |-> ch]

----
\* Balancer.Dial, one action per step between two accesses to shared state.

setLocals(c, p, ds, i, flt, d) ==
  /\ pc' = [pc EXCEPT ![c] = p]
  /\ dialers' = [dialers EXCEPT ![c] = ds]
  /\ fi' = [fi EXCEPT ![c] = i]
  /\ filtered' = [filtered EXCEPT ![c] = flt]
  /\ chosen' = [chosen EXCEPT ![c] = d]

\* return nil, err / return conn, nil: the locals of the call are gone.
return(c, res) ==
  /\ setLocals(c, "done", <<>>, 0, <<>>, 0)
  /\ result' = [result EXCEPT ![c] = res]

\* A panic unwinds the call.
panic(c) ==
  /\ setLocals(c, "panicked", <<>>, 0, <<>>, 0)
  /\ result' = [result EXCEPT ![c] = "panic"]

\* The head of Dial's for loop with the working list ds, up to the sort of
\* randomDialer.
loopTop(c, ds) ==
  IF Len(ds) = 0
  THEN return(c, "No dialers left to try")
  ELSE /\ setLocals(c, "filter", byQOS(ds), 1, <<>>, 0)
       /\ UNCHANGED result

\* randomDialer after the filter loop, and Dial's test of d == nil.
randomDialerTail(c, ds, flt) ==
  IF Len(flt) = 0
  THEN return(c, "No dialers left")
  ELSE IF totalWeights(flt) <= 0
  THEN panic(c)    \* rand.Intn panics on a non-positive argument
  ELSE \E t \in 0..(totalWeights(flt) - 1) :
         LET k == pickIndex(flt, t) IN
         IF k = 0
         THEN panic(c)    \* "No dialer found!"
         ELSE /\ setLocals(c, "dial", withoutDialer(ds, flt[k]), 0, <<>>, flt[k])
              /\ UNCHANGED result

\* Calls are numbered in the order in which they start.
DialStart(c, tq) ==
  /\ pc[c] = "idle"
  /\ IF c = 1 THEN TRUE ELSE pc[c - 1] # "idle"
  /\ targetQOS' = [targetQOS EXCEPT ![c] = tq]
  /\ stayedActive' = [stayedActive EXCEPT ![c] = {d \in D : active[d] = 1}]
  /\ loopTop(c, getDialers)
  /\ UNCHANGED attempts
  /\ UNCHANGED <<b_dialers, closeI>>
  /\ UNCHANGED monitorVars

\* for i, d := range dialers: one iteration, which reads d.active; the last
\* iteration runs on to the end of randomDialer.
DialFilter(c) ==
  /\ pc[c] = "filter"
  /\ LET flt == filterStep(dialers[c], fi[c], isactive(dialers[c][fi[c]]),
                           targetQOS[c], filtered[c]) IN
       IF fi[c] < Len(dialers[c])
       THEN /\ setLocals(c, "filter", dialers[c], fi[c] + 1, flt, 0)
            /\ UNCHANGED result
       ELSE randomDialerTail(c, dialers[c], flt)
  /\ UNCHANGED <<targetQOS, attempts, stayedActive>>
  /\ UNCHANGED <<b_dialers, closeI>>
  /\ UNCHANGED monitorVars

\* conn, err := d.Dial(network, addr) returns: with err == nil Dial returns
\* the connection, otherwise it goes on to d.onError(err).
\* A Dial that treats every outcome of d.Dial as an error.
afterDial_AlwaysError(ok) == "onError"

afterDial(ok) == IF ok THEN "return" ELSE "onError"

DialConnect(c, ok) ==
  /\ pc[c] = "dial"
  /\ attempts' = [attempts EXCEPT ![c] =
                    Append(@, [d |-> chosen[c], ok |-> ok, how |-> "none"])]
  /\ IF afterDial(ok) = "return"
     THEN return(c, "conn")
     ELSE /\ pc' = [pc EXCEPT ![c] = "onError"]
          /\ UNCHANGED <<dialers, fi, filtered, chosen, result>>
  /\ UNCHANGED <<targetQOS, stayedActive>>
  /\ UNCHANGED <<b_dialers, closeI>>
  /\ UNCHANGED monitorVars

\* A Dial that deactivates the failed dialer itself.
DialOnError_Deactivates(c) ==
  /\ pc[c] = "onError"
  /\ LET r == onError(errCh[chosen[c]]) IN
       /\ attempts' = [attempts EXCEPT ![c][Len(attempts[c])].how = r.how]
       /\ errCh' = [errCh EXCEPT ![chosen[c]] = r.ch]
       /\ IF r.how = "panic" THEN panic(c) ELSE loopTop(c, dialers[c])
  /\ active' = [active EXCEPT ![chosen[c]] = 0]
  /\ UNCHANGED <<targetQOS, stayedActive>>
  /\ UNCHANGED <<b_dialers, closeI>>
  /\ UNCHANGED <<consecCheckFailures, timer, timerC, mpc>>

\* d.onError(err); continue
DialOnError(c) ==
  /\ pc[c] = "onError"
  /\ LET r == onError(errCh[chosen[c]]) IN
       /\ attempts' = [attempts EXCEPT ![c][Len(attempts[c])].how = r.how]
       /\ errCh' = [errCh EXCEPT ![chosen[c]] = r.ch]
       /\ IF r.how = "panic" THEN panic(c) ELSE loopTop(c, dialers[c])
  /\ UNCHANGED <<targetQOS, stayedActive>>
  /\ UNCHANGED <<b_dialers, closeI>>
  /\ UNCHANGED <<active, consecCheckFailures, timer, timerC, mpc>>

----
\* The specifications.

ScenarioIds == 1..Len(ScenarioDialers)

\* Spec: the registry ScenarioDialers, NumCalls concurrent Dial calls, the
\* monitors and Close.
Next ==
  \/ \E d \in ScenarioIds : TimerFire(d)
  \/ \E d \in ScenarioIds : MonitorRecvErr(d)
  \/ \E d \in ScenarioIds : MonitorStopped(d)
  \/ \E d \in ScenarioIds : MonitorTimer(d)
  \/ \E d \in ScenarioIds, ok \in BOOLEAN : MonitorCheckDone(d, ok, MaxConsec, FALSE)
  \/ \E c \in Calls, tq \in ScenarioTargets : DialStart(c, tq)
  \/ \E c \in Calls : DialFilter(c)
  \/ \E c \in Calls, ok \in BOOLEAN : DialConnect(c, ok)
  \/ \E c \in Calls : DialOnError(c)
  \/ Close

Spec == Init /\ [][Next]_vars

\* SpecSel: one Dial call over a registry and activity flags drawn from
\* bounded sets, with the monitors at rest, so that each selection is
\* randomDialer applied to a fixed input.  An inactive dialer is in the state
\* its monitor reaches on receiving one failure signal.
SelRegistries ==
  UNION { [1..n -> [Weight : 1..MaxSelWeight, QOS : QOSValues]] : n \in 0..MaxSelDialers }

InitSel ==
  \E cfg \in SelRegistries : \E act \in [1..Len(cfg) -> {0, 1}] :
    /\ b_dialers = cfg
    /\ active = act
    /\ errCh = [d \in 1..Len(cfg) |-> [n |-> 0, closed |-> FALSE]]
    /\ consecCheckFailures = [d \in 1..Len(cfg) |-> 0]
    /\ timer = [d \in 1..Len(cfg) |-> loopHead(act[d], 0, longTimer)]
    /\ timerC = [d \in 1..Len(cfg) |-> FALSE]
    /\ mpc = [d \in 1..Len(cfg) |-> "select"]
    /\ closeI = 0
    /\ idleCalls

NextSel ==
  \/ \E tq \in TargetValues : DialStart(1, tq)
  \/ DialFilter(1)
  \/ \E ok \in BOOLEAN : DialConnect(1, ok)
  \/ DialOnError(1)

SpecSel == InitSel /\ [][NextSel]_vars

\* SpecAnyWeight: SpecSel over registries whose Weights may be zero or
\* negative (Weight is an int, and New takes any).
AnyWeightRegistries ==
  UNION { [1..n -> [Weight : (0 - MaxNegWeight)..MaxSelWeight, QOS : QOSValues]] :
            n \in 0..MaxAnyDialers }

InitAnyWeight ==
  \E cfg \in AnyWeightRegistries : \E act \in [1..Len(cfg) -> {0, 1}] :
    /\ b_dialers = cfg
    /\ active = act
    /\ errCh = [d \in 1..Len(cfg) |-> [n |-> 0, closed |-> FALSE]]
    /\ consecCheckFailures = [d \in 1..Len(cfg) |-> 0]
    /\ timer = [d \in 1..Len(cfg) |-> loopHead(act[d], 0, longTimer)]
    /\ timerC = [d \in 1..Len(cfg) |-> FALSE]
    /\ mpc = [d \in 1..Len(cfg) |-> "select"]
    /\ closeI = 0
    /\ idleCalls

SpecAnyWeight == InitAnyWeight /\ [][NextSel]_vars

\* SpecMon: one dialer, whose monitor may count up to MaxConsecMon failed
\* checks, NumCalls Dial calls and Close.
MonDialers == << [Weight |-> 1, QOS |-> 1] >>

MonIds == 1..Len(MonDialers)

InitMon == New(MonDialers)

NextMon ==
  \/ \E d \in MonIds : TimerFire(d)
  \/ \E d \in MonIds : MonitorRecvErr(d)
  \/ \E d \in MonIds : MonitorStopped(d)
  \/ \E d \in MonIds : MonitorTimer(d)
  \/ \E d \in MonIds, ok \in BOOLEAN : MonitorCheckDone(d, ok, MaxConsecMon, FALSE)
  \/ \E c \in Calls, tq \in ScenarioTargets : DialStart(c, tq)
  \/ \E c \in Calls : DialFilter(c)
  \/ \E c \in Calls, ok \in BOOLEAN : DialConnect(c, ok)
  \/ \E c \in Calls : DialOnError(c)
  \/ Close

SpecMon == InitMon /\ [][NextMon]_vars

\* SpecLive: Spec without Close (the balancer is never closed), every call
\* with targetQOS 5, every count of failed checks from MaxConsec on merged
\* into MaxConsec, and fairness:
\*   - time passes, so an armed timer expires;
\*   - the monitor goroutine is scheduled, and its select takes each case
\*     that is ready again and again (the runtime chooses among the ready
\*     cases at random);
\*   - d.Check() returns;
\*   - the goroutine of a Dial call is scheduled and d.Dial returns.
LiveTargets == {5}

NextLive ==
  \/ \E d \in ScenarioIds : TimerFire(d)
  \/ \E d \in ScenarioIds : MonitorRecvErr(d)
  \/ \E d \in ScenarioIds : MonitorTimer(d)
  \/ \E d \in ScenarioIds, ok \in BOOLEAN : MonitorCheckDone(d, ok, MaxConsec, TRUE)
  \/ \E c \in Calls, tq \in LiveTargets : DialStart(c, tq)
  \/ \E c \in Calls : DialFilter(c)
  \/ \E c \in Calls, ok \in BOOLEAN : DialConnect(c, ok)
  \/ \E c \in Calls : DialOnError(c)

Fairness ==
  /\ \A d \in ScenarioIds : WF_vars(TimerFire(d))
  /\ \A d \in ScenarioIds : SF_vars(MonitorRecvErr(d))
  /\ \A d \in ScenarioIds : SF_vars(MonitorTimer(d))
  /\ \A d \in ScenarioIds :
       WF_vars(\E ok \in BOOLEAN : MonitorCheckDone(d, ok, MaxConsec, TRUE))
  /\ \A c \in Calls : WF_vars(DialFilter(c))
  /\ \A c \in Calls : WF_vars(\E ok \in BOOLEAN : DialConnect(c, ok))
  /\ \A c \in Calls : WF_vars(DialOnError(c))

SpecLive == Init /\ [][NextLive]_vars /\ Fairness

\* SpecClose: one Dial call, the monitors and Close, with the fairness of
\* SpecLive and, for the closed channel, a select that takes the receive of
\* !ok when it is ready again and again.
NextClose ==
  \/ \E d \in ScenarioIds : TimerFire(d)
  \/ \E d \in ScenarioIds : MonitorRecvErr(d)
  \/ \E d \in ScenarioIds : MonitorStopped(d)
  \/ \E d \in ScenarioIds : MonitorTimer(d)
  \/ \E d \in ScenarioIds, ok \in BOOLEAN : MonitorCheckDone(d, ok, MaxConsec, TRUE)
  \/ \E tq \in ScenarioTargets : DialStart(1, tq)
  \/ DialFilter(1)
  \/ \E ok \in BOOLEAN : DialConnect(1, ok)
  \/ DialOnError(1)
  \/ Close

FairnessClose ==
  /\ Fairness
  /\ \A d \in ScenarioIds : SF_vars(MonitorStopped(d))

SpecClose == Init /\ [][NextClose]_vars /\ FairnessClose

----
\* Claims checked under Spec.

AttemptedBy(c) == {attempts[c][k].d : k \in 1..Len(attempts[c])}

\* C1: within one Dial call no strategy's connect function is invoked twice,
\* whatever the monitors and the other calls do in between.
C1_NoStrategyAttemptedTwice ==
  \A c \in Calls : \A k, l \in 1..Len(attempts[c]) :
    k # l => attempts[c][k].d # attempts[c][l].d

\* A call that has attempted every dialer of the registry, each once, and
\* has returned the exhaustion error.
C1_Witness ==
  \E c \in Calls :
    /\ pc[c] = "done" /\ result[c] = "No dialers left to try"
    /\ Len(attempts[c]) = Len(b_dialers)
    /\ AttemptedBy(c) = D

\* C5 (as claimed): a Dial call that returns an error has attempted every
\* strategy that was active during the whole call.
C5_ErrorOnlyOnExhaustion ==
  \A c \in Calls :
    (pc[c] = "done" /\ result[c] # "conn") => stayedActive[c] \subseteq AttemptedBy(c)

\* C6: an attempt whose connect succeeded is the last attempt of its call, the
\* call has returned the connection, and onError was not called for it.
C6_SuccessReturnsImmediately ==
  \A c \in Calls : \A k \in 1..Len(attempts[c]) :
    attempts[c][k].ok =>
      /\ k = Len(attempts[c])
      /\ pc[c] = "done" /\ result[c] = "conn"
      /\ attempts[c][k].how = "none"

\* A call whose first attempt failed and whose second succeeded, while the
\* failure signal of the first is still pending.
C6_Witness ==
  \E c \in Calls :
    /\ pc[c] = "done" /\ result[c] = "conn"
    /\ Len(attempts[c]) = 2
    /\ ~attempts[c][1].ok /\ attempts[c][2].ok
    /\ errCh[attempts[c][1].d].n = 1 /\ errCh[attempts[c][2].d].n = 0

\* C12: at most one failure signal is pending per strategy; a call that is
\* at d.onError(err) can always take that step, whatever the monitor is
\* doing; the step takes the call out of onError, and with a signal pending
\* on an open channel it leaves the channel as it is and the signal is dropped.
C12_OnErrorNeverBlocks ==
  /\ [](\A d \in ScenarioIds : errCh[d].n <= ErrChCap)
  /\ [](\A c \in Calls : pc[c] = "onError" => ENABLED DialOnError(c))
  /\ [][\A c \in Calls :
         (pc[c] = "onError" /\ attempts'[c] # attempts[c]) =>
           /\ pc'[c] \in {"filter", "done", "panicked"}
           /\ (errCh[chosen[c]].n = ErrChCap /\ ~errCh[chosen[c]].closed) =>
                 /\ errCh' = errCh
                 /\ Last(attempts'[c]).how = "dropped"]_vars

\* Both calls failed on the same strategy before its monitor received
\* anything: the first signal is pending, the second was dropped.
C12_Witness ==
  \E d \in D :
    /\ active[d] = 1 /\ errCh[d].n = 1
    /\ \E k \in 1..Len(attempts[1]) :
         attempts[1][k].d = d /\ attempts[1][k].how = "sent"
    /\ \E k \in 1..Len(attempts[2]) :
         attempts[2][k].d = d /\ attempts[2][k].how = "dropped"

\* A step of call c: its position in Dial or in the filter loop changes.
callStep(c) == pc'[c] # pc[c] \/ fi'[c] # fi[c]

\* C15: a step of a Dial call leaves every active flag, every count of failed
\* checks and every timer as they are; it changes no channel unless it is
\* d.onError, and then none but the channel of the strategy that failed.
C15_OnlyMonitorWritesActive ==
  [][\A c \in Calls :
       callStep(c) =>
         /\ active' = active
         /\ consecCheckFailures' = consecCheckFailures
         /\ <<timer, timerC, mpc>>' = <<timer, timerC, mpc>>
         /\ \A d \in ScenarioIds :
              (pc[c] # "onError" \/ d # chosen[c]) => errCh'[d] = errCh[d]]_vars

\* A call has sent a failure signal for its second strategy while the signal
\* of its first is still pending and both strategies are still active.
C15_Witness ==
  \E c \in Calls :
    /\ Len(attempts[c]) = 2
    /\ attempts[c][2].how = "sent" /\ errCh[attempts[c][2].d].n = 1
    /\ errCh[attempts[c][1].d].n = 1
    /\ \A d \in D : active[d] = 1 /\ consecCheckFailures[d] = 0

\* C16: b.dialers is what New was given, always; a call that starts gets a
\* working list holding every dialer of the registry once, whatever the
\* other calls have removed from theirs; and a step of one call leaves the
\* working list of every other call as it is.
C16_RegistryIsReadOnly ==
  /\ [](b_dialers = ScenarioDialers)
  /\ [][\A c \in Calls :
         (pc[c] = "idle" /\ pc'[c] # "idle") =>
           /\ Len(dialers'[c]) = Len(b_dialers)
           /\ Range(dialers'[c]) = D]_vars
  /\ [][\A c, e \in Calls :
         (callStep(c) /\ e # c) => dialers'[e] = dialers[e]]_vars

\* The second call starts from the full registry after the first call has
\* removed every dialer from its own working list.
C16_Witness ==
  /\ pc[1] = "onError" /\ Len(attempts[1]) = 2 /\ dialers[1] = <<>>
  /\ pc[2] = "filter" /\ fi[2] = 1 /\ Len(dialers[2]) = 2

\* C20 (as claimed): no Dial call ends in a panic, and no onError sends on a
\* closed channel, also when Close runs before or during the call.
C20_DialNeverFaults ==
  \A c \in Calls :
    /\ pc[c] # "panicked"
    /\ \A k \in 1..Len(attempts[c]) : attempts[c][k].how # "panic"

----
\* Claims checked under SpecSel.  A step of call c from pc "filter" to another
\* pc is the return of randomDialer(dialers[c], targetQOS[c]); dialers[c] is
\* then the sorted list and chosen'[c] the dialer returned, if pc'[c] = "dial".

ActiveIn(ds) == {d \in Range(ds) : active[d] = 1}

Qualifying(ds, tq) == {d \in ActiveIn(ds) : QOS(d) >= tq}

randomDialerReturns(c) == pc[c] = "filter" /\ pc'[c] # "filter"

\* C2: when the list handed to randomDialer holds an active strategy with
\* qos >= targetQOS, a strategy is chosen, and it is active with
\* qos >= targetQOS.
C2_ChosenMeetsTarget ==
  [][\A c \in Calls :
       (randomDialerReturns(c) /\ Qualifying(dialers[c], targetQOS[c]) # {}) =>
         /\ pc'[c] = "dial"
         /\ chosen'[c] \in Qualifying(dialers[c], targetQOS[c])]_vars

\* A qualifying strategy was chosen although an active strategy of lower qos
\* than the target was handed in before it.
C2_Witness ==
  \E c \in Calls :
    /\ pc[c] = "dial"
    /\ active[chosen[c]] = 1 /\ QOS(chosen[c]) >= targetQOS[c]
    /\ \E d \in Range(dialers[c]) : active[d] = 1 /\ QOS(d) < targetQOS[c]

\* C3 (as claimed): when the list holds an active strategy and none that is
\* active with qos >= targetQOS, a strategy is chosen, and it is an active one
\* of maximal qos among the active ones of the list.
C3_FallbackIsHighestActive ==
  [][\A c \in Calls :
       (/\ randomDialerReturns(c)
        /\ ActiveIn(dialers[c]) # {}
        /\ Qualifying(dialers[c], targetQOS[c]) = {}) =>
         /\ pc'[c] = "dial"
         /\ chosen'[c] \in ActiveIn(dialers[c])
         /\ \A e \in ActiveIn(dialers[c]) : QOS(e) <= QOS(chosen'[c])]_vars

\* C4: with a non-empty registry and no active strategy, a Dial call invokes
\* no connect function, sends no failure signal, and can only end with
\* "No dialers left".
C4_NoActiveNoAttempt ==
  (Len(b_dialers) > 0 /\ \A d \in D : active[d] = 0) =>
    \A c \in Calls :
      /\ attempts[c] = <<>>
      /\ \A d \in D : errCh[d].n = 0
      /\ pc[c] \in {"idle", "filter", "done"}
      /\ pc[c] = "done" => result[c] = "No dialers left"

\* A call over three inactive dialers has returned "No dialers left".
C4_Witness ==
  /\ Len(b_dialers) = 3 /\ \A d \in D : active[d] = 0
  /\ pc[1] = "done" /\ result[1] = "No dialers left"

\* The eligible set of a call whose filter loop is in its last iteration.
atLastFilter(c) == pc[c] = "filter" /\ fi[c] = Len(dialers[c])

eligible(c) ==
  filterStep(dialers[c], fi[c], isactive(dialers[c][fi[c]]), targetQOS[c], filtered[c])

\* C17: for a non-empty eligible set of total weight W, every t in 0..W-1
\* picks the first strategy whose cumulative weight exceeds t, each strategy
\* s is picked by exactly Weight(s) of the W values of t, and randomDialer
\* returns a strategy of the eligible set without panicking.
C17_WeightedPick ==
  /\ [](\A c \in Calls :
          (atLastFilter(c) /\ Len(eligible(c)) > 0) =>
            LET flt == eligible(c)
                W == totalWeights(flt)
            IN /\ W > 0
               /\ \A t \in 0..(W - 1) :
                    LET k == pickIndex(flt, t) IN
                      /\ k \in 1..Len(flt)
                      /\ sumWeights(flt, k) > t
                      /\ sumWeights(flt, k - 1) <= t
               /\ \A k \in 1..Len(flt) :
                    Cardinality({t \in 0..(W - 1) : pickIndex(flt, t) = k}) = Weight(flt[k]))
  /\ [][\A c \in Calls :
         (atLastFilter(c) /\ Len(eligible(c)) > 0 /\ randomDialerReturns(c)) =>
           /\ pc'[c] = "dial"
           /\ chosen'[c] \in Range(eligible(c))]_vars

\* Of three active strategies of qos 1, the second, of weight 2, was picked
\* for a call with targetQOS 1.
C17_Witness ==
  /\ Len(b_dialers) = 3
  /\ \A d \in D : active[d] = 1 /\ QOS(d) = 1
  /\ Weight(1) = 1 /\ Weight(2) = 2 /\ Weight(3) = 1
  /\ pc[1] = "dial" /\ targetQOS[1] = 1 /\ chosen[1] = 2

\* C18 (as claimed): the list randomDialer gives back with the chosen
\* strategy holds only strategies of the eligible set, and not the chosen one.
C18_RemainderIsEligibleSet ==
  [][\A c \in Calls :
       (atLastFilter(c) /\ randomDialerReturns(c) /\ pc'[c] = "dial") =>
         Range(dialers'[c]) \subseteq (Range(eligible(c)) \ {chosen'[c]})]_vars

\* C18 (amended): the list randomDialer gives back with the chosen strategy
\* is the sorted list it worked on with the chosen strategy taken out, the
\* others kept in their order whether or not they passed the filters.
C18_RemainderIsListMinusChosen ==
  [][\A c \in Calls :
       (atLastFilter(c) /\ randomDialerReturns(c) /\ pc'[c] = "dial") =>
         /\ chosen'[c] \in Range(eligible(c))
         /\ dialers'[c] = SelectSeq(dialers[c], LAMBDA x : x # chosen'[c])
         /\ Len(dialers'[c]) = Len(dialers[c]) - 1]_vars

\* A strategy was chosen and the list given back holds an inactive strategy
\* and an active one below the target.
C18_Witness ==
  \E c \in Calls :
    /\ pc[c] = "dial" /\ QOS(chosen[c]) >= targetQOS[c]
    /\ chosen[c] \notin Range(dialers[c])
    /\ \E d \in Range(dialers[c]) : active[d] = 0
    /\ \E d \in Range(dialers[c]) : active[d] = 1 /\ QOS(d) < targetQOS[c]

----
\* Claims checked under SpecAnyWeight.

\* C13: a strategy returned by randomDialer has a positive Weight, and so
\* has every strategy whose connect function a Dial call invokes.
C13_NonPositiveWeightNeverChosen ==
  /\ [][\A c \in Calls :
         (randomDialerReturns(c) /\ pc'[c] = "dial") => Weight(chosen'[c]) > 0]_vars
  /\ [](\A c \in Calls : \A k \in 1..Len(attempts[c]) : Weight(attempts[c][k].d) > 0)

\* A strategy was returned from a list in which an active strategy of
\* negative Weight and one of Weight zero met the target as well.
C13_Witness ==
  \E c \in Calls :
    /\ pc[c] = "onError" /\ Len(attempts[c]) = 1
    /\ \E d \in D : active[d] = 1 /\ QOS(d) >= targetQOS[c] /\ Weight(d) < 0
    /\ \E d \in D : active[d] = 1 /\ QOS(d) >= targetQOS[c] /\ Weight(d) = 0

----
\* Claims checked under SpecMon.

\* C8 (as claimed): the delay scheduled for the next check of an inactive
\* strategy is min(60s, n^2 * 100ms), n being its count of failed checks.
C8_DelayCappedAtOneMinute ==
  \A d \in D :
    (active[d] = 0 /\ timer[d].armed /\ ~timer[d].long) =>
      timer[d].dur = Min(maxCheckTimeout, consecCheckFailures[d] * consecCheckFailures[d])

\* C9 (as claimed): the check that reactivates a strategy leaves its count of
\* failed checks at 0 and its timer at the long duration.
C9_SuccessResetsCounter ==
  [][\A d \in MonIds :
       (mpc[d] = "check" /\ active[d] = 0 /\ active'[d] = 1) =>
         /\ consecCheckFailures'[d] = 0
         /\ timer'[d] = longTimer]_vars

\* C14 (as claimed): the receipt of a failure signal raises the count of
\* consecutive failures by one and schedules the next check after
\* min(60s, n^2 * 100ms) for the new count n, so 100ms after the first signal.
C14_FailureSignalAdvancesCount ==
  [][\A d \in MonIds :
       (mpc[d] = "select" /\ errCh'[d].n < errCh[d].n) =>
         /\ consecCheckFailures'[d] = consecCheckFailures[d] + 1
         /\ timer'[d] =
              resetTimer(Min(maxCheckTimeout, checkTimeout(consecCheckFailures'[d])))]_vars

----
\* Claims checked under SpecLive.

connectFailed(c, d) == pc[c] = "onError" /\ chosen[c] = d

\* C7: once the connect of strategy d has failed in a Dial call, d is
\* eventually inactive, whether onError's send goes through or is dropped.
C7_FailureDeactivates ==
  \A c \in Calls : \A d \in ScenarioIds : connectFailed(c, d) ~> (active[d] = 0)

\* A call's failure signal was dropped, the pending one has been received,
\* and the strategy is inactive.
C7_Witness ==
  \E c \in Calls :
    /\ Len(attempts[c]) > 0
    /\ Last(attempts[c]).how = "dropped"
    /\ active[Last(attempts[c]).d] = 0
    /\ errCh[Last(attempts[c]).d].n = 0

\* C10: an inactive strategy is eventually checked; and unless its checks
\* fail again and again forever, an inactive strategy is eventually active.
C10_InactiveIsProbedAndRecovers ==
  \A d \in ScenarioIds :
    /\ (active[d] = 0) ~> (mpc[d] = "check")
    /\ \/ []<><<MonitorCheckDone(d, FALSE, MaxConsec, TRUE)>>_vars
       \/ (active[d] = 0) ~> (active[d] = 1)

\* A strategy that is active again after a failed check.
C10_Witness ==
  \E d \in D :
    /\ active[d] = 1 /\ consecCheckFailures[d] > 0
    /\ mpc[d] = "select" /\ timer[d] = longTimer

----
\* Claims checked under SpecClose.

\* C11: once a strategy's channel is closed its monitor eventually returns,
\* whatever is buffered in the channel or due on the timer; a monitor that
\* has returned stays so, starts no check and leaves the active flag and the
\* count of failed checks as they are.
C11_MonitorsTerminate ==
  /\ \A d \in ScenarioIds : errCh[d].closed ~> (mpc[d] = "stopped")
  /\ [][\A d \in ScenarioIds :
         mpc[d] = "stopped" =>
           /\ mpc'[d] = "stopped"
           /\ active'[d] = active[d]
           /\ consecCheckFailures'[d] = consecCheckFailures[d]]_vars

\* A monitor has returned while its strategy was inactive and the timer of
\* its first check had expired: the check was never made.
C11_Witness ==
  \E d \in D :
    /\ mpc[d] = "stopped" /\ errCh[d].closed
    /\ active[d] = 0 /\ consecCheckFailures[d] = 0 /\ timerC[d]

----
\* Further claims checked under SpecLive.

running(c) == pc[c] \in {"filter", "dial", "onError"}

====
